---- MODULE Spec2Model ----
(***************************************************************************)
(* A model of the extension lifecycle/aggregation code of remirror:        *)
(*   - ReactSSRExtension.onInitialize, which collects the ssr transformers *)
(*     of the extensions and publishes their composition to the store;     *)
(*   - HelpersExtension.onCreate / onView, which collect the helpers of    *)
(*     the extensions under unique names and publish the helpers map.      *)
(* Every call of a lifecycle method creates a closure (a "pass") with its  *)
(* own local state; the handlers it returns stay callable afterwards.      *)
(***************************************************************************)
EXTENDS Integers, Sequences, FiniteSets, TLC

\* The number of calls of a lifecycle method (closures created) explored.
MaxPasses == 2
\* The number of forEachExtension calls explored, over all passes.
MaxVisits == 2
\* The number of afterExtensionLoop calls explored, over all passes.
MaxFinalize == 2
\* JSX elements are the values 0..MaxElement.
MaxElement == 2

Undefined == "undefined"

Passes == 1..MaxPasses

Elements == 0..MaxElement

(***************************************************************************)
(* SSRTransformer: a function from element to element, which may throw.    *)
(* Two behaviours stand for the transformers extensions supply: "inc" and  *)
(* "dbl" do not commute, and "inc" throws on the largest element.          *)
(***************************************************************************)
TransformerFns == {"inc", "dbl"}

TransformerBehaviour(fn, owner, element) ==
    IF fn = "dbl"
    THEN [threw |-> FALSE, value |-> (2 * element) % (MaxElement + 1)]
    ELSE IF element < MaxElement
         THEN [threw |-> FALSE, value |-> element + 1]
         ELSE [threw |-> TRUE, error |-> [by |-> owner, element |-> element]]

(***************************************************************************)
(* The transformer ReactSSRExtension itself contributes:                   *)
(* createSSRTransformer: ({ extension }) => (initialElement) => { for      *)
(* (transformer of extension.settings.transformers) element =              *)
(* transformer(element); return element }                                  *)
(***************************************************************************)
RECURSIVE SettingsLoop(_, _, _, _)
SettingsLoop(extension, transformers, i, element) ==
    IF i > Len(transformers)
    THEN [threw |-> FALSE, value |-> element]
    ELSE LET r == TransformerBehaviour(transformers[i], extension, element)
         IN  IF r.threw
             THEN r
             ELSE SettingsLoop(extension, transformers, i + 1, r.value)

\* The transformer of ReactSSRExtension going through the list from its end.
reactSSRTransformerReversed(extension, initialElement) ==
    SettingsLoop(extension,
                 [i \in 1..Len(extension.transformers) |->
                    extension.transformers[Len(extension.transformers) + 1 - i]],
                 1, initialElement)

reactSSRTransformer(extension, initialElement) ==
    SettingsLoop(extension, extension.transformers, 1, initialElement)

CallTransformer(transformer, element) ==
    IF transformer.fn = "reactSSR"
    THEN reactSSRTransformer(transformer.owner, element)
    ELSE TransformerBehaviour(transformer.fn, transformer.owner, element)

(***************************************************************************)
(* The extensions handed to forEachExtension: every combination of         *)
(* parameter.createSSRTransformer (absent or a factory) and                *)
(* settings.exclude.reactSSR.                                              *)
(***************************************************************************)
Extensions ==
    [createSSRTransformer : TransformerFns \cup {Undefined}, exclude : BOOLEAN]

\* DEFAULT_TRANSFORMATIONS of react-ssr-helpers: a list of transformers.
DEFAULT_TRANSFORMATIONS == <<"inc", "dbl">>

\* ReactSSRExtension as an extension handed to forEachExtension, with the
\* settings.transformers it may be created with, the default among them.
ReactSSRExtensions ==
    [createSSRTransformer : {"reactSSR"}, exclude : {FALSE},
     transformers : {DEFAULT_TRANSFORMATIONS, <<>>, <<"inc">>, <<"dbl", "inc">>}]

\* The extensions with a transformer of their own that opt in.
PlainExtensions == [createSSRTransformer : TransformerFns, exclude : {FALSE}]

\* getParameter that leaves the manager parameter as it is.
getParameterBare(extension) ==
    [extension |-> [createSSRTransformer |-> Undefined, exclude |-> FALSE]]

\* getParameter(extension): the manager parameter with the extension added.
getParameter(extension) == [extension |-> extension]

\* extension.parameter.createSSRTransformer(parameter): the transformer made.
createSSRTransformer(extension, parameter) ==
    [owner |-> parameter.extension, fn |-> extension.createSSRTransformer]

\* The early return of forEachExtension.
SkipsIgnoringExclude(extension) ==
    extension.createSSRTransformer = Undefined

Skips(extension) ==
    extension.createSSRTransformer = Undefined \/ extension.exclude

\* array.push(item)
Unshift(array, item) == <<item>> \o array

PushTwice(array, item) == array \o <<item, item>>

Push(array, item) == Append(array, item)

VARIABLES
    initCount,        \* calls of onInitialize so far; pass p is the p-th
    ssrTransformers,  \* pass -> the array `ssrTransformers` of its closure
    visited,          \* pass -> the extensions forEachExtension was called with
    factoryCalls,     \* pass -> the parameters createSSRTransformer was called with
    finalized,        \* pass -> calls of its afterExtensionLoop so far
    storeSSR,         \* store key 'ssrTransformer': 0, or the pass of the closure
    lastCall,         \* what the latest step returned, when it was an application
                      \* of the composed transformer; NoCall otherwise
    helpersMethod,    \* whether the manager method parameter 'helpers' is set
    viewCount,        \* calls of onView so far; view pass v is the v-th
    helpers,          \* view pass -> the object `helpers` of its closure
    names,            \* view pass -> the set `names` of its closure
    viewVisited,      \* view pass -> the extensions forEachExtension was called with
    viewThrown,       \* view pass -> the error its forEachExtension threw, if any
    viewFinalized,    \* view pass -> whether its afterExtensionLoop has run
    storeHelpers,     \* store key 'helpers': 0, or the view pass of the object
    lastHelpers,      \* what the latest step returned, when it was a call of the
                      \* helpers() method; NoCall otherwise
    utilCall          \* the latest call of a function of enhanced-link-utils: its
                      \* name, its arguments and what it returned

ssrVars == <<initCount, ssrTransformers, visited, factoryCalls, finalized,
             storeSSR, lastCall>>

helperVars == <<helpersMethod, viewCount, helpers, names, viewVisited, viewThrown,
                viewFinalized, storeHelpers, lastHelpers>>

utilVars == <<utilCall>>

vars == <<ssrVars, helperVars, utilVars>>

NoCall == [pass |-> 0]

RECURSIVE SumTo(_, _)
SumTo(f, p) == IF p = 0 THEN 0 ELSE f[p] + SumTo(f, p - 1)

TotalVisits == SumTo([p \in Passes |-> Len(visited[p])], MaxPasses)

TotalFinalize == SumTo(finalized, MaxPasses)

(***************************************************************************)
(* const ssrTransformer = (initialElement) => { for (transformer of        *)
(* ssrTransformers) element = transformer(element); return element }       *)
(* An exception of a transformer leaves the loop and the function.         *)
(***************************************************************************)
RECURSIVE TransformLoop(_, _, _)
TransformLoop(transformers, i, run) ==
    IF i > Len(transformers)
    THEN run
    ELSE LET r == CallTransformer(transformers[i], run.element)
             invoked == Append(run.invoked, transformers[i])
         IN  IF r.threw
             THEN [run EXCEPT !.threw = TRUE, !.error = r.error, !.invoked = invoked]
             ELSE TransformLoop(transformers, i + 1,
                                [run EXCEPT !.element = r.value, !.invoked = invoked])

NoError == [by |-> Undefined, element |-> 0]

\* The loop with a try/catch around each transformer, which the code has not.
RECURSIVE CatchingLoop(_, _, _)
CatchingLoop(transformers, i, run) ==
    IF i > Len(transformers)
    THEN run
    ELSE LET r == CallTransformer(transformers[i], run.element)
             invoked == Append(run.invoked, transformers[i])
         IN  CatchingLoop(transformers, i + 1,
                          [run EXCEPT !.element = IF r.threw THEN @ ELSE r.value,
                                      !.invoked = invoked])

ssrTransformerCatching(transformers, initialElement) ==
    CatchingLoop(transformers, 1,
                 [element |-> initialElement, threw |-> FALSE,
                  error |-> NoError, invoked |-> <<>>])

ssrTransformer(transformers, initialElement) ==
    TransformLoop(transformers, 1,
                  [element |-> initialElement, threw |-> FALSE,
                   error |-> NoError, invoked |-> <<>>])

NoThrow == [code |-> Undefined]

SSRInit ==
    /\ initCount = 0
    /\ ssrTransformers = [p \in Passes |-> <<>>]
    /\ visited = [p \in Passes |-> <<>>]
    /\ factoryCalls = [p \in Passes |-> <<>>]
    /\ finalized = [p \in Passes |-> 0]
    /\ storeSSR = 0
    /\ lastCall = NoCall

HelpersInit ==
    /\ helpersMethod = FALSE
    /\ viewCount = 0
    /\ helpers = [v \in Passes |-> <<>>]
    /\ names = [v \in Passes |-> {}]
    /\ viewVisited = [v \in Passes |-> <<>>]
    /\ viewThrown = [v \in Passes |-> NoThrow]
    /\ viewFinalized = [v \in Passes |-> FALSE]
    /\ storeHelpers = 0
    /\ lastHelpers = NoCall

NoUtilCall == [fn |-> "none"]

UtilInit == utilCall = NoUtilCall

Init == SSRInit /\ HelpersInit /\ UtilInit

\* onInitialize with the array shared by all closures instead of local to each.
OnInitializeSharedArray ==
    /\ initCount < MaxPasses
    /\ initCount' = initCount + 1
    /\ ssrTransformers' =
         [ssrTransformers EXCEPT
            ![initCount + 1] = IF initCount = 0 THEN <<>> ELSE ssrTransformers[initCount]]
    /\ lastCall' = NoCall
    /\ UNCHANGED <<visited, factoryCalls, finalized, storeSSR>>
    /\ UNCHANGED <<helperVars, utilVars>>

\* onInitialize: a new closure with `const ssrTransformers = []`.
OnInitialize ==
    /\ initCount < MaxPasses
    /\ initCount' = initCount + 1
    /\ ssrTransformers' = [ssrTransformers EXCEPT ![initCount + 1] = <<>>]
    /\ lastCall' = NoCall
    /\ UNCHANGED <<visited, factoryCalls, finalized, storeSSR>>
    /\ UNCHANGED <<helperVars, utilVars>>

\* forEachExtension that publishes the composed transformer itself.
ForEachExtensionPublishing(p, extension) ==
    /\ p <= initCount
    /\ TotalVisits < MaxVisits
    /\ visited' = [visited EXCEPT ![p] = Append(@, extension)]
    /\ IF Skips(extension)
       THEN UNCHANGED <<ssrTransformers, factoryCalls>>
       ELSE LET parameter == getParameter(extension)
            IN  /\ factoryCalls' = [factoryCalls EXCEPT ![p] = Append(@, parameter)]
                /\ ssrTransformers' =
                     [ssrTransformers EXCEPT
                        ![p] = Push(@, createSSRTransformer(extension, parameter))]
    /\ storeSSR' = p
    /\ lastCall' = NoCall
    /\ UNCHANGED <<initCount, finalized>>
    /\ UNCHANGED <<helperVars, utilVars>>

\* forEachExtension of pass p, called with extension.
ForEachExtension(p, extension) ==
    /\ p <= initCount
    /\ TotalVisits < MaxVisits
    /\ visited' = [visited EXCEPT ![p] = Append(@, extension)]
    /\ IF Skips(extension)
       THEN UNCHANGED <<ssrTransformers, factoryCalls>>
       ELSE LET parameter == getParameter(extension)
            IN  /\ factoryCalls' = [factoryCalls EXCEPT ![p] = Append(@, parameter)]
                /\ ssrTransformers' =
                     [ssrTransformers EXCEPT
                        ![p] = Push(@, createSSRTransformer(extension, parameter))]
    /\ lastCall' = NoCall
    /\ UNCHANGED <<initCount, finalized, storeSSR>>
    /\ UNCHANGED <<helperVars, utilVars>>

\* afterExtensionLoop that empties the array once it has published.
AfterExtensionLoopDraining(p) ==
    /\ p <= initCount
    /\ TotalFinalize < MaxFinalize
    /\ finalized' = [finalized EXCEPT ![p] = @ + 1]
    /\ storeSSR' = p
    /\ ssrTransformers' = [ssrTransformers EXCEPT ![p] = <<>>]
    /\ lastCall' = NoCall
    /\ UNCHANGED <<initCount, visited, factoryCalls>>
    /\ UNCHANGED <<helperVars, utilVars>>

\* afterExtensionLoop of pass p: setStoreKey('ssrTransformer', ssrTransformer).
AfterExtensionLoop(p) ==
    /\ p <= initCount
    /\ TotalFinalize < MaxFinalize
    /\ finalized' = [finalized EXCEPT ![p] = @ + 1]
    /\ storeSSR' = p
    /\ lastCall' = NoCall
    /\ UNCHANGED <<initCount, ssrTransformers, visited, factoryCalls>>
    /\ UNCHANGED <<helperVars, utilVars>>

\* A renderer takes the composed transformer from the store and applies it.
Apply(element) ==
    /\ storeSSR # 0
    /\ lastCall' = [pass |-> storeSSR, input |-> element,
                    result |-> ssrTransformer(ssrTransformers[storeSSR], element)]
    /\ UNCHANGED <<initCount, ssrTransformers, visited, factoryCalls, finalized,
                   storeSSR>>
    /\ UNCHANGED <<helperVars, utilVars>>

Next ==
    \/ OnInitialize
    \/ \E p \in Passes, extension \in Extensions : ForEachExtension(p, extension)
    \/ \E p \in Passes : AfterExtensionLoop(p)
    \/ \E element \in Elements : Apply(element)

Spec == Init /\ [][Next]_vars

\* The same handlers, with ReactSSRExtension among the extensions visited.
NestedNext ==
    \/ OnInitialize
    \/ \E p \in Passes, extension \in PlainExtensions \cup ReactSSRExtensions :
         ForEachExtension(p, extension)
    \/ \E p \in Passes : AfterExtensionLoop(p)
    \/ \E element \in Elements : Apply(element)

NestedSpec == Init /\ [][NestedNext]_vars

(***************************************************************************)
(* The manager's initialization pass: it calls onInitialize, then          *)
(* forEachExtension for the extensions one after the other, then           *)
(* afterExtensionLoop once.  A renderer applies what the store holds at any *)
(* time.                                                                   *)
(***************************************************************************)
PassRunning == initCount > 0 /\ finalized[initCount] = 0

ManagedOnInitialize == ~PassRunning /\ OnInitialize

ManagedForEachExtension(extension) ==
    PassRunning /\ ForEachExtension(initCount, extension)

ManagedAfterExtensionLoop == PassRunning /\ AfterExtensionLoop(initCount)

ManagedNext ==
    \/ ManagedOnInitialize
    \/ \E extension \in Extensions : ManagedForEachExtension(extension)
    \/ ManagedAfterExtensionLoop
    \/ \E element \in Elements : Apply(element)

ManagedSpec == Init /\ [][ManagedNext]_vars

(***************************************************************************)
(* HelpersExtension.                                                       *)
(***************************************************************************)

HelperNames == {"a", "b"}

\* What createHelpers() of an extension returns, as the names of its entries in
\* the order entries() yields them: an object has no name twice.
HelperEntries == {<<>>, <<"a">>, <<"b">>, <<"a", "b">>, <<"b", "a">>}

\* The extensions handed to forEachExtension of onView: one that defines no
\* createHelpers, and one for each object createHelpers may return.
HelperExtensions ==
    {[defines |-> FALSE, createHelpers |-> <<>>]}
      \cup [defines : {TRUE}, createHelpers : HelperEntries]

\* object(): an object with no keys.
EmptyObject == [n \in {} |-> Undefined]

\* throwIfNameNotUnique({ name, set, code }): throws an error of the code that
\* names the name when the set holds it already, and adds it otherwise.
throwIfNameNotUnique(name, set, code) ==
    IF name \in set
    THEN [threw |-> TRUE, error |-> [code |-> code, name |-> name], set |-> set]
    ELSE [threw |-> FALSE, error |-> NoThrow, set |-> set \cup {name}]

\* for (const [name, helper] of entries(extensionHelpers)) { ... }
RECURSIVE HelpersLoop(_, _, _, _)
HelpersLoop(extension, entries, i, st) ==
    IF i > Len(entries)
    THEN st
    ELSE LET unique == throwIfNameNotUnique(entries[i], st.names, "DUPLICATE_HELPER_NAMES")
         IN  IF unique.threw
             THEN [st EXCEPT !.thrown = unique.error]
             ELSE HelpersLoop(extension, entries, i + 1,
                              [st EXCEPT
                                 !.names = unique.set,
                                 !.helpers = (entries[i] :> [owner |-> extension,
                                                             name |-> entries[i]]) @@ @])

\* The loop with the assignment before the check of the name.
RECURSIVE AssignFirstLoop(_, _, _, _)
AssignFirstLoop(extension, entries, i, st) ==
    IF i > Len(entries)
    THEN st
    ELSE LET assigned == (entries[i] :> [owner |-> extension, name |-> entries[i]])
                           @@ st.helpers
             unique == throwIfNameNotUnique(entries[i], st.names, "DUPLICATE_HELPER_NAMES")
         IN  IF unique.threw
             THEN [st EXCEPT !.helpers = assigned, !.thrown = unique.error]
             ELSE AssignFirstLoop(extension, entries, i + 1,
                                  [st EXCEPT !.names = unique.set, !.helpers = assigned])

collectHelpersAssignFirst(extension, helpersObject, namesSet) ==
    AssignFirstLoop(extension, extension.createHelpers, 1,
                    [helpers |-> helpersObject, names |-> namesSet, thrown |-> NoThrow])

\* The body of forEachExtension with a set of names of its own for each call.
collectHelpersLocalNames(extension, helpersObject, namesSet) ==
    LET st == HelpersLoop(extension, extension.createHelpers, 1,
                          [helpers |-> helpersObject, names |-> {}, thrown |-> NoThrow])
    IN  [st EXCEPT !.names = namesSet \cup @]

\* The body of forEachExtension past its early return.
collectHelpers(extension, helpersObject, namesSet) ==
    HelpersLoop(extension, extension.createHelpers, 1,
                [helpers |-> helpersObject, names |-> namesSet, thrown |-> NoThrow])

\* getStoreKey(key): the value set for the key, or undefined (0).
getStoreKey(value) == value

\* invariant(value, { code }): throws an error of the code on a falsy value.
invariant(value, code) ==
    IF value = 0
    THEN [threw |-> TRUE, error |-> [code |-> code]]
    ELSE [threw |-> FALSE, error |-> NoThrow]

TotalViewVisits == SumTo([v \in Passes |-> Len(viewVisited[v])], MaxPasses)

\* onCreate's beforeExtensionLoop: setManagerMethodParameter('helpers', ...).
BeforeExtensionLoop ==
    /\ ~helpersMethod
    /\ helpersMethod' = TRUE
    /\ lastHelpers' = NoCall
    /\ UNCHANGED <<viewCount, helpers, names, viewVisited, viewThrown, viewFinalized,
                   storeHelpers>>
    /\ UNCHANGED <<ssrVars, utilVars>>

\* The helpers() manager method.
CallHelpers ==
    /\ helpersMethod
    /\ LET value == getStoreKey(storeHelpers)
           checked == invariant(value, "HELPERS_CALLED_IN_OUTER_SCOPE")
       IN  lastHelpers' =
             IF checked.threw
             THEN [threw |-> TRUE, error |-> checked.error]
             ELSE [threw |-> FALSE, pass |-> value, value |-> helpers[value]]
    /\ UNCHANGED <<helpersMethod, viewCount, helpers, names, viewVisited, viewThrown,
                   viewFinalized, storeHelpers>>
    /\ UNCHANGED <<ssrVars, utilVars>>

\* onView: a new closure with `helpers = object()` and `names = new Set()`.
OnView ==
    /\ viewCount < MaxPasses
    /\ viewCount' = viewCount + 1
    /\ helpers' = [helpers EXCEPT ![viewCount + 1] = EmptyObject]
    /\ names' = [names EXCEPT ![viewCount + 1] = {}]
    /\ lastHelpers' = NoCall
    /\ UNCHANGED <<helpersMethod, viewVisited, viewThrown, viewFinalized, storeHelpers>>
    /\ UNCHANGED <<ssrVars, utilVars>>

\* forEachExtension of view pass v, called with extension.  An error it throws
\* ends the pass: no handler of the pass is called after it.
ViewForEachExtension(v, extension) ==
    /\ v <= viewCount
    /\ viewThrown[v] = NoThrow
    /\ TotalViewVisits < MaxVisits
    /\ viewVisited' = [viewVisited EXCEPT ![v] = Append(@, extension)]
    /\ IF ~extension.defines
       THEN UNCHANGED <<helpers, names, viewThrown>>
       ELSE LET st == collectHelpers(extension, helpers[v], names[v])
            IN  /\ helpers' = [helpers EXCEPT ![v] = st.helpers]
                /\ names' = [names EXCEPT ![v] = st.names]
                /\ viewThrown' = [viewThrown EXCEPT ![v] = st.thrown]
    /\ lastHelpers' = NoCall
    /\ UNCHANGED <<helpersMethod, viewCount, viewFinalized, storeHelpers>>
    /\ UNCHANGED <<ssrVars, utilVars>>

\* afterExtensionLoop of view pass v: setStoreKey('helpers', helpers).
ViewAfterExtensionLoop(v) ==
    /\ v <= viewCount
    /\ viewThrown[v] = NoThrow
    /\ ~viewFinalized[v]
    /\ viewFinalized' = [viewFinalized EXCEPT ![v] = TRUE]
    /\ storeHelpers' = v
    /\ lastHelpers' = NoCall
    /\ UNCHANGED <<helpersMethod, viewCount, helpers, names, viewVisited, viewThrown>>
    /\ UNCHANGED <<ssrVars, utilVars>>

HelpersNext ==
    \/ BeforeExtensionLoop
    \/ CallHelpers
    \/ OnView
    \/ \E v \in Passes, extension \in HelperExtensions : ViewForEachExtension(v, extension)
    \/ \E v \in Passes : ViewAfterExtensionLoop(v)

HelpersSpec == Init /\ [][HelpersNext]_vars

(***************************************************************************)
(* The manager's view pass: it calls onView, then forEachExtension for the *)
(* extensions one after the other, then afterExtensionLoop once; an error  *)
(* thrown by a handler ends the pass.                                      *)
(***************************************************************************)
ViewPassRunning ==
    /\ viewCount > 0
    /\ ~viewFinalized[viewCount]
    /\ viewThrown[viewCount] = NoThrow

ManagedOnView == ~ViewPassRunning /\ OnView

ManagedViewForEachExtension(extension) ==
    ViewPassRunning /\ ViewForEachExtension(viewCount, extension)

ManagedViewAfterExtensionLoop ==
    ViewPassRunning /\ ViewAfterExtensionLoop(viewCount)

ManagedHelpersNext ==
    \/ BeforeExtensionLoop
    \/ CallHelpers
    \/ ManagedOnView
    \/ \E extension \in HelperExtensions : ManagedViewForEachExtension(extension)
    \/ ManagedViewAfterExtensionLoop

ManagedHelpersSpec == Init /\ [][ManagedHelpersNext]_vars

(***************************************************************************)
(* enhanced-link-utils.                                                    *)
(***************************************************************************)

\* The values of the sets handed to isSetEqual are 1..MaxSetValue.
MaxSetValue == 3

SetValues == 1..MaxSetValue

\* for (const value of setOne) { if (!setTwo.has(value)) return false }
RECURSIVE isSetEqualLoop(_, _)
isSetEqualLoop(rest, setTwo) ==
    IF rest = {}
    THEN TRUE
    ELSE LET value == CHOOSE v \in rest : TRUE
         IN  IF value \notin setTwo
             THEN FALSE
             ELSE isSetEqualLoop(rest \ {value}, setTwo)

\* isSetEqual without its comparison of the sizes.
isSetEqualNoSizeCheck(setOne, setTwo) == isSetEqualLoop(setOne, setTwo)

isSetEqual(setOne, setTwo) ==
    IF Cardinality(setOne) # Cardinality(setTwo)
    THEN FALSE
    ELSE isSetEqualLoop(setOne, setTwo)

CallIsSetEqual(setOne, setTwo) ==
    /\ utilCall = NoUtilCall
    /\ utilCall' = [fn |-> "isSetEqual", setOne |-> setOne, setTwo |-> setTwo,
                    result |-> isSetEqual(setOne, setTwo)]
    /\ UNCHANGED <<ssrVars, helperVars>>

\* Strings are sequences of characters.  The urls handed to extractHref are a
\* start that does or does not look like a scheme, followed by at most MaxRest
\* more characters.
MaxRest == 2

UrlChars == {"h", "a", ":", "/"}

UrlStarts ==
    { <<>>,
      <<"h", "t", "t", "p">>,
      <<"h", "t", "t", "p", ":", "/", "/">>,
      <<"h", "t", "t", "p", "s", ":", "/", "/">>,
      <<"/", "/">>,
      <<"/">>,
      <<"h", "t", "t">>,
      <<"f", "t", "p", ":", "/", "/">> }

UrlsOfRest(n) ==
    {start \o rest : start \in UrlStarts,
                     rest \in UNION {[1..k -> UrlChars] : k \in 0..n}}

Urls == UrlsOfRest(MaxRest)

\* string.startsWith(prefix)
startsWith(string, prefix) ==
    /\ Len(string) >= Len(prefix)
    /\ SubSeq(string, 1, Len(prefix)) = prefix

\* extractHref with && in the place of ||.
extractHrefBothPrefixes(url) ==
    IF startsWith(url, <<"h", "t", "t", "p">>) /\ startsWith(url, <<"/", "/">>)
    THEN url
    ELSE <<"h", "t", "t", "p", ":", "/", "/">> \o url

\* url.startsWith('http') || url.startsWith('//') ? url : `http://${url}`
extractHref(url) ==
    IF startsWith(url, <<"h", "t", "t", "p">>) \/ startsWith(url, <<"/", "/">>)
    THEN url
    ELSE <<"h", "t", "t", "p", ":", "/", "/">> \o url

CallExtractHref(url) ==
    /\ utilCall = NoUtilCall
    /\ utilCall' = [fn |-> "extractHref", url |-> url, onResult |-> FALSE,
                    result |-> extractHref(url)]
    /\ UNCHANGED <<ssrVars, helperVars>>

\* extractHref called with what the latest call of it returned.
CallExtractHrefOnResult ==
    /\ utilCall.fn = "extractHref"
    /\ ~utilCall.onResult
    /\ utilCall' = [fn |-> "extractHref", url |-> utilCall.result, onResult |-> TRUE,
                    result |-> extractHref(utilCall.result)]
    /\ UNCHANGED <<ssrVars, helperVars>>

\* Document positions are 0..MaxPosition.
MaxPosition == 3

Positions == 0..MaxPosition

\* A transaction, as far as the handler acts on it: where it comes from, the
\* steps added to it, and the selection set on it, if one was set.
\* state.tr: a new transaction of the state.
StateTransaction ==
    [origin |-> "state.tr", steps |-> <<>>, selectionSet |-> FALSE,
     selection |-> [anchor |-> 0, head |-> 0]]

\* The transactions a caller passes as `tr`: with or without a step, with or
\* without a selection set.
PassedTransactions ==
    [origin : {"tr"},
     steps : {<<>>, <<[from |-> 0, to |-> 0,
                      node |-> [text |-> <<"a">>, marks |-> <<>>]]>>},
     selectionSet : {FALSE},
     selection : {[anchor |-> 0, head |-> 0]}]
      \cup
    [origin : {"tr"},
     steps : {<<>>},
     selectionSet : {TRUE},
     selection : {[anchor |-> MaxPosition, head |-> MaxPosition]}]

\* The optional parameter tr.
TransactionParameters ==
    {[given |-> FALSE, tr |-> StateTransaction]}
      \cup [given : {TRUE}, tr : PassedTransactions]

\* The urls handed to the handler: state.schema.text takes no empty text.
HandlerUrls == UrlsOfRest(0) \ {<<>>}

\* tr.replaceWith(from, to, node)
replaceWith(tr, from, to, node) ==
    [tr EXCEPT !.steps = Append(@, [from |-> from, to |-> to, node |-> node])]

\* TextSelection.create(doc, anchor): head defaults to anchor.
TextSelectionCreate(anchor) == [anchor |-> anchor, head |-> anchor]

\* tr.setSelection(selection)
setSelection(tr, selection) ==
    [tr EXCEPT !.selectionSet = TRUE, !.selection = selection]

\* enhancedLinkHandler with <= in the place of <.
enhancedLinkHandlerAtEnd(state, url, from, to, trParameter) ==
    LET endPosition == state.selection.to
        enhancedLink == [type |-> "enhancedLink", attrs |-> [href |-> extractHref(url)]]
        tr == replaceWith(IF trParameter.given THEN trParameter.tr ELSE StateTransaction,
                          from, to, [text |-> url, marks |-> <<enhancedLink>>])
    IN  IF endPosition <= to
        THEN setSelection(tr, TextSelectionCreate(endPosition))
        ELSE tr

enhancedLinkHandler(state, url, from, to, trParameter) ==
    LET endPosition == state.selection.to
        enhancedLink == [type |-> "enhancedLink", attrs |-> [href |-> extractHref(url)]]
        tr == replaceWith(IF trParameter.given THEN trParameter.tr ELSE StateTransaction,
                          from, to, [text |-> url, marks |-> <<enhancedLink>>])
    IN  IF endPosition < to
        THEN setSelection(tr, TextSelectionCreate(endPosition))
        ELSE tr

CallEnhancedLinkHandler(state, url, from, to, trParameter) ==
    /\ utilCall = NoUtilCall
    /\ from <= to
    /\ utilCall' = [fn |-> "enhancedLinkHandler", state |-> state, url |-> url,
                    from |-> from, to |-> to, tr |-> trParameter,
                    result |-> enhancedLinkHandler(state, url, from, to, trParameter)]
    /\ UNCHANGED <<ssrVars, helperVars>>

\* The caller is done with what the latest call returned.
DropResult ==
    /\ utilCall # NoUtilCall
    /\ utilCall' = NoUtilCall
    /\ UNCHANGED <<ssrVars, helperVars>>

UtilNext ==
    \/ \E setOne, setTwo \in SUBSET SetValues : CallIsSetEqual(setOne, setTwo)
    \/ \E url \in Urls : CallExtractHref(url)
    \/ CallExtractHrefOnResult
    \/ DropResult
    \/ \E selectionTo, from, to \in Positions, url \in HandlerUrls,
          trParameter \in TransactionParameters :
         CallEnhancedLinkHandler([selection |-> [to |-> selectionTo]], url, from, to,
                                 trParameter)

UtilSpec == Init /\ [][UtilNext]_vars

(***************************************************************************)
(* What the properties below are stated with.                              *)
(***************************************************************************)

\* The extension defines createSSRTransformer and is not excluded.
OptedIn(extension) ==
    extension.createSSRTransformer # Undefined /\ ~extension.exclude

\* The transformers t_1..t_n of the opted-in extensions among es, in order.
RECURSIVE TransformersOf(_)
TransformersOf(es) ==
    IF es = <<>>
    THEN <<>>
    ELSE LET e == es[Len(es)]
             front == TransformersOf(SubSeq(es, 1, Len(es) - 1))
         IN  IF OptedIn(e)
             THEN Append(front, [owner |-> e, fn |-> e.createSSRTransformer])
             ELSE front

\* t_n(t_{n-1}(...t_1(x))): the outermost call is made on the value of the
\* inner ones, and throws what they throw.
RECURSIVE Nested(_, _, _)
Nested(ts, n, x) ==
    IF n = 0
    THEN [threw |-> FALSE, value |-> x]
    ELSE LET inner == Nested(ts, n - 1, x)
         IN  IF inner.threw THEN inner ELSE CallTransformer(ts[n], inner.value)

\* The outcome of an application, as its caller sees it.
Outcome(result) ==
    IF result.threw
    THEN [threw |-> TRUE, error |-> result.error]
    ELSE [threw |-> FALSE, value |-> result.element]

Composed(p, x) == Outcome(ssrTransformer(ssrTransformers[p], x))

\* C1: the composed transformer in the store is t_n(...t_1(x)) for the
\* transformers of the opted-in, non-excluded extensions its pass visited, in
\* visiting order, and an application of it returned exactly that.
C1_OrderPreservation ==
    /\ storeSSR # 0 =>
         LET ts == TransformersOf(visited[storeSSR])
         IN  \A x \in Elements : Composed(storeSSR, x) = Nested(ts, Len(ts), x)
    /\ lastCall # NoCall =>
         LET ts == TransformersOf(visited[lastCall.pass])
         IN  Outcome(lastCall.result) = Nested(ts, Len(ts), lastCall.input)

\* C1 witness: an application of the composition of two transformers that do
\* not commute on the input returned t2(t1(x)), which is not t1(t2(x)).
C1_Witness ==
    /\ lastCall # NoCall
    /\ LET ts == ssrTransformers[lastCall.pass]
           x == lastCall.input
       IN  /\ Len(ts) = 2
           /\ ~lastCall.result.threw
           /\ lastCall.result.element = Nested(ts, 2, x).value
           /\ Nested(<<ts[2], ts[1]>>, 2, x) # Nested(ts, 2, x)

\* C2: an excluded extension's factory is never called, no transformer of it is
\* in a registry or invoked by an application, and a registry has one entry for
\* each visit of an extension that defines createSSRTransformer and is not
\* excluded.
C2_ExclusionHonored ==
    /\ \A p \in Passes :
         /\ \A i \in 1..Len(factoryCalls[p]) : ~factoryCalls[p][i].extension.exclude
         /\ \A i \in 1..Len(ssrTransformers[p]) : ~ssrTransformers[p][i].owner.exclude
         /\ Len(ssrTransformers[p]) =
              Cardinality({i \in 1..Len(visited[p]) :
                             /\ visited[p][i].createSSRTransformer # Undefined
                             /\ ~visited[p][i].exclude})
    /\ lastCall # NoCall =>
         \A i \in 1..Len(lastCall.result.invoked) :
            ~lastCall.result.invoked[i].owner.exclude

\* C2 witness: a pass visited an excluded extension that has a factory and an
\* opted-in one, and its composed transformer was applied.
C2_Witness ==
    /\ lastCall # NoCall
    /\ \E i, j \in 1..Len(visited[lastCall.pass]) :
         /\ visited[lastCall.pass][i].exclude
         /\ visited[lastCall.pass][i].createSSRTransformer # Undefined
         /\ OptedIn(visited[lastCall.pass][j])
    /\ Len(lastCall.result.invoked) = 1

\* C3: when no extension visited by the pass of the published transformer opts
\* in, the transformer returns its input.
C3_IdentityOnEmpty ==
    /\ (storeSSR # 0 /\ \A i \in 1..Len(visited[storeSSR]) : ~OptedIn(visited[storeSSR][i]))
         => \A x \in Elements : Composed(storeSSR, x) = [threw |-> FALSE, value |-> x]
    /\ (lastCall # NoCall /\ \A i \in 1..Len(visited[lastCall.pass]) :
                                 ~OptedIn(visited[lastCall.pass][i]))
         => /\ ~lastCall.result.threw
            /\ lastCall.result.element = lastCall.input
            /\ lastCall.result.invoked = <<>>

\* C3 witness: the transformer of a pass that visited only an excluded
\* extension with a factory and one without a factory was applied.
C3_Witness ==
    /\ lastCall # NoCall
    /\ Len(visited[lastCall.pass]) = 2
    /\ \E i, j \in 1..2 :
         /\ visited[lastCall.pass][i].exclude
         /\ visited[lastCall.pass][i].createSSRTransformer # Undefined
         /\ visited[lastCall.pass][j].createSSRTransformer = Undefined
    /\ lastCall.result.element = lastCall.input

\* C4: once afterExtensionLoop of a pass has published, a forEachExtension call
\* of that pass with an opted-in extension is rejected: it neither calls the
\* factory nor appends to the registry.
C4_RegistrationAfterFinalizeRejected ==
    [][\A p \in Passes :
          (/\ finalized[p] > 0
           /\ Len(visited'[p]) = Len(visited[p]) + 1
           /\ OptedIn(visited'[p][Len(visited'[p])]))
          => /\ factoryCalls'[p] = factoryCalls[p]
             /\ Len(ssrTransformers'[p]) = Len(ssrTransformers[p])]_vars

\* C5: a registry only grows at its end while its pass runs, and once the pass
\* has published, the output of its composed transformer never changes.
C5_FrozenPipeline ==
    [][\A p \in Passes :
          /\ Len(ssrTransformers[p]) <= Len(ssrTransformers'[p])
          /\ SubSeq(ssrTransformers'[p], 1, Len(ssrTransformers[p])) = ssrTransformers[p]
          /\ finalized[p] > 0 =>
               \A x \in Elements : Composed(p, x)' = Composed(p, x)]_vars

\* The transformer the factory call with this parameter made.
MadeBy(parameter) ==
    [owner |-> parameter.extension, fn |-> parameter.extension.createSSRTransformer]

\* C6: a call of onInitialize starts with an empty registry; a registration of
\* one pass leaves the registry and the composed transformer of every other
\* pass unchanged; an application invokes only transformers its own pass made.
C6_PassIsolation ==
    [][/\ initCount' = initCount + 1 => ssrTransformers'[initCount'] = <<>>
       /\ \A p \in Passes :
            visited'[p] # visited[p] =>
              \A q \in Passes \ {p} :
                 /\ ssrTransformers'[q] = ssrTransformers[q]
                 /\ \A x \in Elements : Composed(q, x)' = Composed(q, x)
       /\ lastCall' # NoCall =>
            LET made == factoryCalls'[lastCall'.pass]
                invoked == lastCall'.result.invoked
            IN  /\ Len(invoked) <= Len(made)
                /\ \A i \in 1..Len(invoked) : invoked[i] = MadeBy(made[i])]_vars

\* C6 witness: the transformer of the second pass was applied while the first
\* pass holds a different, non-empty registry.
C6_Witness ==
    /\ lastCall # NoCall
    /\ lastCall.pass = 2
    /\ ssrTransformers[1] # <<>>
    /\ ssrTransformers[2] # <<>>
    /\ ssrTransformers[1] # ssrTransformers[2]
    /\ Len(lastCall.result.invoked) = Len(ssrTransformers[2])

\* C7: a repeated afterExtensionLoop of a pass leaves every registry unchanged
\* and publishes a transformer with the outputs of the one it published before.
C7_FinalizeIdempotent ==
    [][\A p \in Passes :
          finalized'[p] = finalized[p] + 1 =>
            /\ ssrTransformers' = ssrTransformers
            /\ storeSSR' = p
            /\ finalized[p] > 0 =>
                 \A x \in Elements :
                    Outcome(ssrTransformer(ssrTransformers'[storeSSR'], x)) = Composed(p, x)]_vars

\* C7 witness: afterExtensionLoop ran twice on a pass with a non-empty registry.
C7_Witness ==
    \E p \in Passes :
       /\ finalized[p] >= 2
       /\ storeSSR = p
       /\ ssrTransformers[p] # <<>>

\* The position of the first transformer of ts that throws on input x, or 0.
FirstThrow(ts, x) ==
    LET throwing == {i \in 1..Len(ts) : Nested(ts, i, x).threw}
    IN  IF throwing = {} THEN 0
        ELSE CHOOSE i \in throwing : \A j \in throwing : i <= j

\* C10: when the i-th transformer throws during an application, the caller gets
\* that error, and exactly transformers 1..i were invoked; when none throws, no
\* error reaches the caller.
C10_FailurePropagation ==
    lastCall # NoCall =>
      LET ts == ssrTransformers[lastCall.pass]
          i == FirstThrow(ts, lastCall.input)
      IN  IF i = 0
          THEN ~lastCall.result.threw
          ELSE /\ lastCall.result.threw
               /\ lastCall.result.error =
                    CallTransformer(ts[i], Nested(ts, i - 1, lastCall.input).value).error
               /\ lastCall.result.invoked = SubSeq(ts, 1, i)

\* C10 witness: an application in which a transformer threw and a later one of
\* the registry was therefore not invoked.
C10_Witness ==
    /\ lastCall # NoCall
    /\ lastCall.result.threw
    /\ Len(ssrTransformers[lastCall.pass]) >= 2
    /\ Len(lastCall.result.invoked) < Len(ssrTransformers[lastCall.pass])

\* The names the extensions es contribute, in order.
RECURSIVE AllNames(_)
AllNames(es) ==
    IF es = <<>>
    THEN <<>>
    ELSE (IF es[1].defines THEN es[1].createHelpers ELSE <<>>) \o AllNames(Tail(es))

\* The position of the first name of ns that an earlier position holds, or 0.
FirstRepeat(ns) ==
    LET repeats == {j \in 1..Len(ns) : \E i \in 1..(j - 1) : ns[i] = ns[j]}
    IN  IF repeats = {} THEN 0
        ELSE CHOOSE j \in repeats : \A k \in repeats : j <= k

\* C8: a view pass has thrown exactly when a name was contributed to it twice;
\* the error is DUPLICATE_HELPER_NAMES, names the first name contributed a
\* second time, and was thrown by the visit that contributed it the second time,
\* the first contribution being of an earlier visit.
C8_DuplicateHelperName ==
    \A v \in Passes :
       LET ns == AllNames(viewVisited[v])
           j == FirstRepeat(ns)
           before == IF viewVisited[v] = <<>> THEN 0
                     ELSE Len(AllNames(SubSeq(viewVisited[v], 1, Len(viewVisited[v]) - 1)))
       IN  IF j = 0
           THEN viewThrown[v] = NoThrow
           ELSE /\ viewThrown[v] = [code |-> "DUPLICATE_HELPER_NAMES", name |-> ns[j]]
                /\ j > before
                /\ \E i \in 1..before : ns[i] = ns[j]

\* C8 witness: a pass in which two different extensions contributed the same
\* name has thrown.
C8_Witness ==
    \E v \in Passes :
       /\ viewThrown[v] # NoThrow
       /\ Len(viewVisited[v]) = 2
       /\ viewVisited[v][1] # viewVisited[v][2]

\* C9: a call of helpers() while the latest view pass has not run its
\* afterExtensionLoop (or before any view pass) fails with
\* HELPERS_CALLED_IN_OUTER_SCOPE.
C9_NoResultBeforePassCompletes ==
    (lastHelpers # NoCall /\ (viewCount = 0 \/ ~viewFinalized[viewCount]))
      => /\ lastHelpers.threw
         /\ lastHelpers.error.code = "HELPERS_CALLED_IN_OUTER_SCOPE"

\* C11: isSetEqual returns true exactly when the two sets hold the same
\* elements, and returns the same with its arguments exchanged.
C11_SetEquality ==
    utilCall.fn = "isSetEqual" =>
      /\ utilCall.result = (utilCall.setOne = utilCall.setTwo)
      /\ utilCall.result = isSetEqual(utilCall.setTwo, utilCall.setOne)

\* C11 witness: isSetEqual returned false for two different sets of one size.
C11_Witness ==
    /\ utilCall.fn = "isSetEqual"
    /\ Cardinality(utilCall.setOne) = Cardinality(utilCall.setTwo)
    /\ utilCall.setOne # utilCall.setTwo
    /\ utilCall.setOne # {}
    /\ ~utilCall.result

\* The first characters of the string are those of the prefix.
BeginsWith(string, prefix) ==
    /\ Len(prefix) <= Len(string)
    /\ \A i \in 1..Len(prefix) : string[i] = prefix[i]

\* The url starts with the scheme prefix http:// or https://.
HasSchemePrefix(url) ==
    \/ BeginsWith(url, <<"h", "t", "t", "p", ":", "/", "/">>)
    \/ BeginsWith(url, <<"h", "t", "t", "p", "s", ":", "/", "/">>)

\* C12: extractHref returns the url unchanged when it starts with a scheme
\* prefix or with //, and http:// followed by the url in every other case.
C12_ExtractHref ==
    utilCall.fn = "extractHref" =>
      utilCall.result =
        IF HasSchemePrefix(utilCall.url) \/ BeginsWith(utilCall.url, <<"/", "/">>)
        THEN utilCall.url
        ELSE <<"h", "t", "t", "p", ":", "/", "/">> \o utilCall.url

\* C15: the transaction returned is the one passed, or a new one of the state
\* when none is passed, with one step more: the range from..to replaced by the
\* text url marked with a link to extractHref(url).  Its selection is a cursor
\* at the selection end of the state when that is less than to, and is left as
\* it was otherwise.
C15_EnhancedLinkHandler ==
    utilCall.fn = "enhancedLinkHandler" =>
      LET base == IF utilCall.tr.given THEN utilCall.tr.tr ELSE StateTransaction
          end == utilCall.state.selection.to
          step == [from |-> utilCall.from, to |-> utilCall.to,
                   node |-> [text |-> utilCall.url,
                             marks |-> <<[type |-> "enhancedLink",
                                          attrs |-> [href |-> extractHref(utilCall.url)]]>>]]
      IN  /\ utilCall.result.origin = base.origin
          /\ utilCall.result.steps = base.steps \o <<step>>
          /\ IF end < utilCall.to
             THEN /\ utilCall.result.selectionSet
                  /\ utilCall.result.selection = [anchor |-> end, head |-> end]
             ELSE /\ utilCall.result.selectionSet = base.selectionSet
                  /\ utilCall.result.selection = base.selection

\* C15 witness: the handler was given a transaction that holds a step, with the
\* selection end of the state at to, and set no selection.
C15_Witness ==
    /\ utilCall.fn = "enhancedLinkHandler"
    /\ utilCall.tr.given
    /\ Len(utilCall.tr.tr.steps) = 1
    /\ utilCall.state.selection.to = utilCall.to
    /\ utilCall.from < utilCall.to
    /\ Len(utilCall.result.steps) = 2
    /\ ~utilCall.result.selectionSet

\* C19: extractHref called with a result of extractHref returns it unchanged,
\* and every result of extractHref starts with http or with //.
C19_ExtractHrefIdempotent ==
    utilCall.fn = "extractHref" =>
      /\ utilCall.onResult => utilCall.result = utilCall.url
      /\ \/ BeginsWith(utilCall.result, <<"h", "t", "t", "p">>)
         \/ BeginsWith(utilCall.result, <<"/", "/">>)

\* C19 witness: extractHref was called with a result to which the first call
\* had added http://.
C19_Witness ==
    /\ utilCall.fn = "extractHref"
    /\ utilCall.onResult
    /\ BeginsWith(utilCall.url, <<"h", "t", "t", "p", ":", "/", "/", "h", "t", "t", "a">>)

\* C13: the store key 'ssrTransformer' changes only in a step of
\* afterExtensionLoop, no extension is visited by a pass that has published,
\* and an application is of a pass that has published and runs through the
\* transformers of all the extensions that pass visited.
C13_PublicationAfterLoop ==
    [][/\ storeSSR' # storeSSR =>
            /\ storeSSR' # 0
            /\ finalized'[storeSSR'] = finalized[storeSSR'] + 1
       /\ \A p \in Passes : finalized[p] > 0 => visited'[p] = visited[p]
       /\ lastCall' # NoCall =>
            LET ts == TransformersOf(visited'[lastCall'.pass])
                invoked == lastCall'.result.invoked
            IN  /\ finalized'[lastCall'.pass] > 0
                /\ Len(invoked) <= Len(ts)
                /\ invoked = SubSeq(ts, 1, Len(invoked))
                /\ ~lastCall'.result.threw => invoked = ts]_vars

\* C13 witness: the transformer published by the second pass, which visited
\* two opted-in extensions, was applied and invoked both transformers.
C13_Witness ==
    /\ lastCall # NoCall
    /\ lastCall.pass = 2
    /\ Len(visited[2]) = 2
    /\ Len(lastCall.result.invoked) = 2

\* The sequence without its i-th element.
RemoveAt(seq, i) == SubSeq(seq, 1, i - 1) \o SubSeq(seq, i + 1, Len(seq))

\* C14: a registry holds no more entries of an extension than the pass made
\* visits of it, and none of an extension without createSSRTransformer; the
\* composed transformer is the one of the visited extensions with any one
\* extension without createSSRTransformer removed.
C14_AtMostOneContribution ==
    \A p \in Passes :
       /\ \A e \in Extensions :
            Cardinality({i \in 1..Len(ssrTransformers[p]) : ssrTransformers[p][i].owner = e})
              <= Cardinality({i \in 1..Len(visited[p]) : visited[p][i] = e})
       /\ \A i \in 1..Len(ssrTransformers[p]) :
            ssrTransformers[p][i].owner.createSSRTransformer # Undefined
       /\ \A i \in 1..Len(visited[p]) :
            visited[p][i].createSSRTransformer = Undefined =>
              LET ts == TransformersOf(RemoveAt(visited[p], i))
              IN  \A x \in Elements : Composed(p, x) = Nested(ts, Len(ts), x)

\* C14 witness: a published pass visited an extension without
\* createSSRTransformer and then an opted-in one, and holds one entry.
C14_Witness ==
    \E p \in Passes :
       /\ storeSSR = p
       /\ Len(visited[p]) = 2
       /\ visited[p][1].createSSRTransformer = Undefined
       /\ OptedIn(visited[p][2])
       /\ Len(ssrTransformers[p]) = 1

\* The entries ts with each entry of ReactSSRExtension replaced by one entry
\* for each of its settings.transformers, in their order.
RECURSIVE Flatten(_)
Flatten(ts) ==
    IF ts = <<>>
    THEN <<>>
    ELSE (IF ts[1].fn = "reactSSR"
          THEN [i \in 1..Len(ts[1].owner.transformers) |->
                  [owner |-> ts[1].owner, fn |-> ts[1].owner.transformers[i]]]
          ELSE <<ts[1]>>) \o Flatten(Tail(ts))

\* C16: the published transformer of a pass that visited ReactSSRExtension is
\* the composition of the registry with the entry of ReactSSRExtension replaced
\* by its settings.transformers in list order, and an application returned what
\* that composition returns.
C16_NestedIsFlat ==
    /\ storeSSR # 0 =>
         LET ts == Flatten(ssrTransformers[storeSSR])
         IN  \A x \in Elements : Composed(storeSSR, x) = Nested(ts, Len(ts), x)
    /\ lastCall # NoCall =>
         LET ts == Flatten(ssrTransformers[lastCall.pass])
         IN  Outcome(lastCall.result) = Nested(ts, Len(ts), lastCall.input)

\* C16 witness: an application of a registry with a plain transformer followed
\* by ReactSSRExtension with two settings transformers returned a value that
\* the two in the other order would not have produced.
C16_Witness ==
    /\ lastCall # NoCall
    /\ LET ts == ssrTransformers[lastCall.pass]
       IN  /\ Len(ts) = 2
           /\ ts[1].fn # "reactSSR"
           /\ ts[2].fn = "reactSSR"
           /\ Len(ts[2].owner.transformers) = 2
           /\ ~lastCall.result.threw
           /\ LET other == <<ts[1], [owner |-> ts[2].owner, fn |-> ts[2].owner.transformers[2]],
                             [owner |-> ts[2].owner, fn |-> ts[2].owner.transformers[1]]>>
              IN  Nested(other, 3, lastCall.input)
                    # [threw |-> FALSE, value |-> lastCall.result.element]

\* The parameters of the factory calls a pass that visited es has made.
RECURSIVE ExpectedFactoryCalls(_)
ExpectedFactoryCalls(es) ==
    IF es = <<>>
    THEN <<>>
    ELSE (IF OptedIn(es[1]) THEN <<[extension |-> es[1]]>> ELSE <<>>)
           \o ExpectedFactoryCalls(Tail(es))

\* C17: after every step the factory calls of a pass are one call for each
\* visit of an opted-in extension, in visiting order, each with the parameter of
\* the extension visited; an application makes no factory call.
C17_FactoriesEagerOnce ==
    [][/\ \A p \in Passes : factoryCalls'[p] = ExpectedFactoryCalls(visited'[p])
       /\ lastCall' # NoCall => factoryCalls' = factoryCalls]_vars

\* C17 witness: the transformer of a pass that made two factory calls, for two
\* different extensions, was applied.
C17_Witness ==
    /\ lastCall # NoCall
    /\ Len(factoryCalls[lastCall.pass]) = 2
    /\ factoryCalls[lastCall.pass][1] # factoryCalls[lastCall.pass][2]
    /\ Len(visited[lastCall.pass]) = 2

\* The first extension of es that contributes the name.
FirstContributor(es, name) ==
    LET at == {i \in 1..Len(es) :
                 /\ es[i].defines
                 /\ \E k \in 1..Len(es[i].createHelpers) : es[i].createHelpers[k] = name}
    IN  es[CHOOSE i \in at : \A j \in at : i <= j]

\* C18: in every view pass the keys of the helpers object are the names
\* recorded, which are the names contributed before the first one contributed
\* twice; each key maps to the helper of the first extension that contributed
\* it; the store holds the object of a pass only once its afterExtensionLoop
\* has run, and the object then holds the entries of every visited extension
\* that defines createHelpers; a pass that has thrown has not written the store.
C18_HelpersRegistryConsistent ==
    /\ \A v \in Passes :
         LET ns == AllNames(viewVisited[v])
             j == FirstRepeat(ns)
             kept == {ns[i] : i \in 1..(IF j = 0 THEN Len(ns) ELSE j - 1)}
         IN  /\ DOMAIN helpers[v] = names[v]
             /\ names[v] = kept
             /\ \A n \in DOMAIN helpers[v] :
                  helpers[v][n] = [owner |-> FirstContributor(viewVisited[v], n), name |-> n]
             /\ viewFinalized[v] =>
                  \A i \in 1..Len(viewVisited[v]) :
                     viewVisited[v][i].defines =>
                       \A k \in 1..Len(viewVisited[v][i].createHelpers) :
                          LET n == viewVisited[v][i].createHelpers[k]
                          IN  /\ n \in DOMAIN helpers[v]
                              /\ helpers[v][n] = [owner |-> viewVisited[v][i], name |-> n]
             /\ viewThrown[v] # NoThrow => (~viewFinalized[v] /\ storeHelpers # v)
    /\ storeHelpers # 0 => viewFinalized[storeHelpers]

\* C18 witness: a pass has thrown on the second entry of an extension after
\* having stored the first, and has not written the store.
C18_Witness ==
    \E v \in Passes :
       /\ viewThrown[v] # NoThrow
       /\ Len(viewVisited[v]) = 2
       /\ Cardinality(names[v]) = 2
       /\ storeHelpers # v

====
